---- MODULE Spec2Model ----
(***************************************************************************)
(* Model of src/pen_data.py: a Streamlit script that loads a JSON file of  *)
(* antibiotic MIC measurements through a memoized loader, reshapes it to   *)
(* long format, computes group means, ratios and extrema, and shows a      *)
(* filtered view chosen by two select boxes.  Every script run (the first  *)
(* one, and each rerun a select box triggers) is one action.               *)
(*                                                                         *)
(* MIC values are integers (a fixed unit); the sampled values are 0, -1    *)
(* and powers of ten, on which sums, means and log10 are exact in IEEE     *)
(* double arithmetic, so exact fractions model the floats faithfully.      *)
(***************************************************************************)
EXTENDS Integers, Sequences, FiniteSets, TLC

\* ------------------------------------------------------------- bounds
\* Largest number of records in the JSON file.
MaxRecords == 2
\* Largest number of records of a table reordered in SpecPerm.
MaxPermRecords == 3
\* Largest number of row transpositions applied in SpecPerm.
MaxSwaps == 1

\* ------------------------------------------------------ program constants
\* The antibiotic list of the three loops (lines 29, 210, 271, 286).
Antibiotics == <<"Penicillin", "Streptomycin", "Neomycin">>

K == Len(Antibiotics)

\* The options of the two select boxes (lines 306 and 309).
GramOptions == <<"All", "positive", "negative">>

AntibioticOptions == <<"All", "Penicillin", "Streptomycin", "Neomycin">>

\* The keys a raw record is read by (lines 31-36).
RecordKeys == {"Bacteria", "Genus", "Gram_Staining", "Penicillin", "Streptomycin", "Neomycin"}

\* ------------------------------------------------------------- inputs
\* File contents the model draws from.
BacteriaNames == {"b1", "b2"}

GenusOf(b) == IF b = "b1" THEN "g1" ELSE "g2"

RawRecord(b, g, m) ==
    [Bacteria |-> b, Genus |-> GenusOf(b), Gram_Staining |-> g,
     Penicillin |-> m[1], Streptomycin |-> m[2], Neomycin |-> m[3]]

\* Records with a recognised staining and positive MIC values.
ValidRecords ==
    { RawRecord(b, g, m) : b \in BacteriaNames, g \in {"positive", "negative"},
                           m \in { <<1, 10, 100>>, <<10, 1, 1>> } }

\* Records with every key present that the loader takes as they are: nothing
\* in lines 28-37 looks at the staining string or at the sign of a MIC value.
UncheckedRecords ==
    { RawRecord("b1", "variable", <<1, 10, 100>>),
      RawRecord("b1", "positive", <<0, 1, -1>>),
      RawRecord("b2", "negative", <<0, 1, -1>>) }

WellFormedRecords == ValidRecords \cup UncheckedRecords

\* A record of the file with one key absent.
Without(r, key) == [f \in (DOMAIN r) \ {key} |-> r[f]]

MalformedRecords == { Without(RawRecord("b1", "positive", <<1, 10, 100>>), key) : key \in RecordKeys }

RawRecords == WellFormedRecords \cup MalformedRecords

RECURSIVE SeqsUpTo(_, _)
SeqsUpTo(S, n) ==
    IF n = 0 THEN { <<>> }
    ELSE LET shorter == SeqsUpTo(S, n - 1)
         IN  shorter \cup { Append(s, x) : s \in shorter, x \in S }

Sources == SeqsUpTo(RawRecords, MaxRecords)

\* The smaller input set of SpecPerm: well-formed records of both stainings.
PermRecords ==
    { RawRecord("b1", "positive", <<1, 10, 100>>),
      RawRecord("b2", "negative", <<10, 1, 1>>),
      RawRecord("b2", "negative", <<1, 10, 100>>) }

PermSources == SeqsUpTo(PermRecords, MaxPermRecords)

\* ------------------------------------------------------------ numbers
\* A float is [kind |-> "num", n, d] (the fraction n/d in lowest terms, d > 0),
\* or one of the IEEE specials "nan", "inf", "-inf".
NaN == [kind |-> "nan"]

PosInf == [kind |-> "inf"]

NegInf == [kind |-> "-inf"]

Unset == [kind |-> "unset"]

Abs(x) == IF x < 0 THEN -x ELSE x

RECURSIVE GCD(_, _)
GCD(a, b) == IF b = 0 THEN a ELSE GCD(b, a % b)

\* n/d for d # 0, in lowest terms with a positive denominator.
Frac(n, d) ==
    LET g == GCD(Abs(n), Abs(d))
        s == IF d < 0 THEN -1 ELSE 1
    IN  [kind |-> "num", n |-> (s * n) \div g, d |-> (s * d) \div g]

\* numpy float64 division: x/0 is inf, -inf or nan, never an exception.
Div(a, b) ==
    IF a.kind # "num" \/ b.kind # "num" THEN NaN
    ELSE IF b.n = 0
         THEN (IF a.n > 0 THEN PosInf ELSE IF a.n < 0 THEN NegInf ELSE NaN)
         ELSE Frac(a.n * b.d, a.d * b.n)

\* np.log10 on the sampled MIC values: exact on powers of ten, -inf at 0 and
\* nan below 0 (a RuntimeWarning, not an exception).
RECURSIVE Log10Pow(_)
Log10Pow(x) == IF x < 10 THEN 0 ELSE 1 + Log10Pow(x \div 10)

Log10(x) ==
    IF x = 0 THEN NegInf
    ELSE IF x < 0 THEN NaN
    ELSE Frac(Log10Pow(x), 1)

\* ------------------------------------------------------------- loader
\* The keys the dict literal of lines 30-37 reads for one antibiotic; a
\* missing one raises KeyError.
RowKeys(antibiotic) == {"Bacteria", antibiotic, "Gram_Staining", "Genus"}

\* One appended row (lines 30-37).
Row(record, antibiotic) ==
    [bacteria |-> record["Bacteria"],
     antibiotic |-> antibiotic,
     mic |-> record[antibiotic],
     gram_staining |-> record["Gram_Staining"],
     genus |-> record["Genus"],
     log_mic |-> Log10(record[antibiotic])]

LoadOk(rows) == [error |-> "none", rows |-> rows]

LoadFailed(e) == [error |-> e, rows |-> <<>>]

\* The inner loop (line 29) over the antibiotics from position j on.
RECURSIVE TransformRecord(_, _, _)
TransformRecord(record, j, acc) ==
    IF j > K THEN LoadOk(acc)
    ELSE IF ~(RowKeys(Antibiotics[j]) \subseteq DOMAIN record) THEN LoadFailed("KeyError")
    ELSE TransformRecord(record, j + 1, Append(acc, Row(record, Antibiotics[j])))

\* The outer loop (line 28) over the records from position i on.
RECURSIVE TransformRecords(_, _, _)
TransformRecords(raw_data, i, transformed_data) ==
    IF i > Len(raw_data) THEN LoadOk(transformed_data)
    ELSE LET one == TransformRecord(raw_data[i], 1, transformed_data)
         IN  IF one.error # "none" THEN one
             ELSE TransformRecords(raw_data, i + 1, one.rows)

\* Mutant: the two loops nested the other way round (antibiotic outside).
RECURSIVE RowsByAntibiotic(_, _, _, _)
RowsByAntibiotic(raw_data, j, i, acc) ==
    IF j > K THEN LoadOk(acc)
    ELSE IF i > Len(raw_data) THEN RowsByAntibiotic(raw_data, j + 1, 1, acc)
    ELSE IF ~(RowKeys(Antibiotics[j]) \subseteq DOMAIN raw_data[i]) THEN LoadFailed("KeyError")
    ELSE RowsByAntibiotic(raw_data, j, i + 1, Append(acc, Row(raw_data[i], Antibiotics[j])))

load_swapped_loops(raw_data) == RowsByAntibiotic(raw_data, 1, 1, <<>>)

\* Mutant: a record that raises is skipped and the loop goes on.
RECURSIVE RowsSkipping(_, _, _)
RowsSkipping(raw_data, i, acc) ==
    IF i > Len(raw_data) THEN LoadOk(acc)
    ELSE LET one == TransformRecord(raw_data[i], 1, acc)
         IN  RowsSkipping(raw_data, i + 1, IF one.error # "none" THEN acc ELSE one.rows)

load_skip_malformed(raw_data) == RowsSkipping(raw_data, 1, <<>>)

\* The body of load_and_transform_data on the parsed file (lines 26-39): the
\* long-format table, or the exception that leaves the function.
load_and_transform_data(raw_data) == TransformRecords(raw_data, 1, <<>>)

\* Mutant: no memoization, every call runs the function body.
never_hit(is_cached) == FALSE

\* @st.cache_data (line 18): a call whose value is stored returns the stored
\* value without running the body.
cache_hit(is_cached) == is_cached

\* ------------------------------------------------------- aggregation
\* Sum of the mic column, accumulated in row order.
RECURSIVE SumMic(_, _, _)
SumMic(rows, i, acc) ==
    IF i > Len(rows) THEN acc ELSE SumMic(rows, i + 1, acc + rows[i].mic)

\* Mutant: the value of the first selected row is taken instead of the mean.
mean_first_row(rows) ==
    IF Len(rows) = 0 THEN NaN ELSE Frac(rows[1].mic, 1)

\* Series.mean() of the mic column: nan on an empty selection, no exception.
mean(rows) ==
    IF Len(rows) = 0 THEN NaN ELSE Frac(SumMic(rows, 1, 0), Len(rows))

\* Lines 44-46: the headline Penicillin statistics.
GramPosPen(table) ==
    mean(SelectSeq(table, LAMBDA r : r.gram_staining = "positive" /\ r.antibiotic = "Penicillin"))

GramNegPen(table) ==
    mean(SelectSeq(table, LAMBDA r : r.gram_staining = "negative" /\ r.antibiotic = "Penicillin"))

EffectivenessRatio(table) == Div(GramNegPen(table), GramPosPen(table))

\* Lines 211-214: one antibiotic's means and ratio.
SummaryRow(table, antibiotic) ==
    LET antibiotic_data == SelectSeq(table, LAMBDA r : r.antibiotic = antibiotic)
        pos_avg == mean(SelectSeq(antibiotic_data, LAMBDA r : r.gram_staining = "positive"))
        neg_avg == mean(SelectSeq(antibiotic_data, LAMBDA r : r.gram_staining = "negative"))
    IN  [Antibiotic |-> antibiotic, pos_avg |-> pos_avg, neg_avg |-> neg_avg,
         ratio |-> Div(neg_avg, pos_avg)]

\* Lines 209-221: the summary list, one entry per antibiotic in list order
\* (the values of lines 212-214; their formatting to text is rendering).
SummaryStats(table) == [k \in 1..K |-> SummaryRow(table, Antibiotics[k])]

\* The index labels of df[df['antibiotic'] == antibiotic], in table order.
RECURSIVE LabelsFrom(_, _, _, _)
LabelsFrom(table, antibiotic, i, acc) ==
    IF i > Len(table) THEN acc
    ELSE LabelsFrom(table, antibiotic, i + 1,
                    IF table[i].antibiotic = antibiotic THEN Append(acc, i) ELSE acc)

Labels(table, antibiotic) == LabelsFrom(table, antibiotic, 1, <<>>)

\* Mutant: a later equal value replaces the current best (last occurrence).
RECURSIVE LastMinFrom(_, _, _, _)
LastMinFrom(table, labels, k, best) ==
    IF k > Len(labels) THEN best
    ELSE LastMinFrom(table, labels, k + 1,
                     IF table[labels[k]].mic <= table[best].mic THEN labels[k] ELSE best)

idxmin_last(table, labels) == LastMinFrom(table, labels, 2, labels[1])

\* Series.idxmin(): the label of the first occurrence of the minimum.
RECURSIVE MinFrom(_, _, _, _)
MinFrom(table, labels, k, best) ==
    IF k > Len(labels) THEN best
    ELSE MinFrom(table, labels, k + 1,
                 IF table[labels[k]].mic < table[best].mic THEN labels[k] ELSE best)

idxmin(table, labels) == MinFrom(table, labels, 2, labels[1])

\* Series.idxmax(): the label of the first occurrence of the maximum.
RECURSIVE MaxFrom(_, _, _, _)
MaxFrom(table, labels, k, best) ==
    IF k > Len(labels) THEN best
    ELSE MaxFrom(table, labels, k + 1,
                 IF table[labels[k]].mic > table[best].mic THEN labels[k] ELSE best)

idxmax(table, labels) == MaxFrom(table, labels, 2, labels[1])

\* The dict appended at lines 273-278 and 288-293.
ExtremaRecord(antibiotic, row) ==
    [Antibiotic |-> antibiotic, Bacteria |-> row.bacteria, MIC |-> row.mic,
     Gram_Staining |-> row.gram_staining]

\* Lines 270-278.  A non-empty table holds K rows of every record, so every
\* antibiotic has a row and idxmin is defined.
MostEffective(table) ==
    [k \in 1..K |->
        ExtremaRecord(Antibiotics[k], table[idxmin(table, Labels(table, Antibiotics[k]))])]

\* Lines 285-293.
LeastEffective(table) ==
    [k \in 1..K |->
        ExtremaRecord(Antibiotics[k], table[idxmax(table, Labels(table, Antibiotics[k]))])]

\* Mutant: the second mask is applied to df, dropping the first filter.
filter_last_only(table, gram, antibiotic) ==
    IF antibiotic # "All" THEN SelectSeq(table, LAMBDA r : r.antibiotic = antibiotic)
    ELSE IF gram # "All" THEN SelectSeq(table, LAMBDA r : r.gram_staining = gram)
    ELSE table

\* Lines 312-316: the copy of df, narrowed by each selection that is not 'All'.
FilterRows(table, gram, antibiotic) ==
    LET by_gram == IF gram # "All"
                   THEN SelectSeq(table, LAMBDA r : r.gram_staining = gram)
                   ELSE table
    IN  IF antibiotic # "All"
        THEN SelectSeq(by_gram, LAMBDA r : r.antibiotic = antibiotic)
        ELSE by_gram

\* Mutant: the filter is assigned to df itself.
filter_in_place(table, filtered) == filtered

\* Line 312: filtered_df starts as df.copy(), so df is what it was after the
\* filter lines.
TableAfterFilter(table, filtered) == table

\* -------------------------------------------------------------- state
VARIABLES
    source,               \* the parsed content of 'Penicillin Data.json'
    is_cached,            \* st.cache_data holds a value for the loader
    cache_value,          \* that value
    reads,                \* how many times the file was opened (line 23)
    status,               \* "idle", "ok", "load_error", "script_error", "perm"
    df,                   \* the table of line 41
    gram_pos_pen,         \* line 44
    gram_neg_pen,         \* line 45
    effectiveness_ratio,  \* line 46
    summary_stats,        \* lines 209-221
    most_effective,       \* lines 270-278
    least_effective,      \* lines 285-293
    selected_gram,        \* line 306
    selected_antibiotic,  \* line 309
    filtered_df,          \* lines 312-316
    swaps                 \* transpositions applied so far (SpecPerm only)

vars ==
    <<source, is_cached, cache_value, reads, status, df, gram_pos_pen, gram_neg_pen,
      effectiveness_ratio, summary_stats, most_effective, least_effective,
      selected_gram, selected_antibiotic, filtered_df, swaps>>

cache_vars == <<is_cached, cache_value, reads>>

widget_vars == <<selected_gram, selected_antibiotic, filtered_df>>

\* The process has started and no session has run the script yet.
Blank ==
    /\ is_cached = FALSE
    /\ cache_value = <<>>
    /\ reads = 0
    /\ status = "idle"
    /\ df = <<>>
    /\ gram_pos_pen = Unset
    /\ gram_neg_pen = Unset
    /\ effectiveness_ratio = Unset
    /\ summary_stats = <<>>
    /\ most_effective = <<>>
    /\ least_effective = <<>>
    /\ selected_gram = "All"
    /\ selected_antibiotic = "All"
    /\ filtered_df = <<>>
    /\ swaps = 0

Init == source \in Sources /\ Blank

\* ------------------------------------------------------------- script
\* One run of the script, top to bottom, with the select boxes at (gram,
\* antibiotic).  An exception ends the run where it is raised: KeyError in the
\* loader (nothing is stored in the cache), or KeyError at line 44 when the
\* table is the column-less frame built from an empty list.
Script(gram, antibiotic) ==
    LET hit == cache_hit(is_cached)
        loaded == IF hit THEN LoadOk(cache_value) ELSE load_and_transform_data(source)
        table == loaded.rows
        filtered == FilterRows(table, gram, antibiotic)
    IN  /\ reads' = IF hit THEN reads ELSE reads + 1
        /\ is_cached' = (hit \/ loaded.error = "none")
        /\ cache_value' = IF hit THEN cache_value ELSE loaded.rows
        /\ source' = source
        /\ swaps' = swaps
        /\ IF loaded.error # "none"
           THEN /\ status' = "load_error"
                /\ UNCHANGED <<df, gram_pos_pen, gram_neg_pen, effectiveness_ratio,
                               summary_stats, most_effective, least_effective, widget_vars>>
           ELSE IF table = <<>>
           THEN /\ status' = "script_error"
                /\ df' = table
                /\ UNCHANGED <<gram_pos_pen, gram_neg_pen, effectiveness_ratio,
                               summary_stats, most_effective, least_effective, widget_vars>>
           ELSE /\ status' = "ok"
                /\ gram_pos_pen' = GramPosPen(table)
                /\ gram_neg_pen' = GramNegPen(table)
                /\ effectiveness_ratio' = EffectivenessRatio(table)
                /\ summary_stats' = SummaryStats(table)
                /\ most_effective' = MostEffective(table)
                /\ least_effective' = LeastEffective(table)
                /\ selected_gram' = gram
                /\ selected_antibiotic' = antibiotic
                /\ filtered_df' = filtered
                /\ df' = TableAfterFilter(table, filtered)

\* A browser session opens the page: the first run, both boxes at 'All'.
FirstRun ==
    /\ status = "idle"
    /\ Script("All", "All")

\* The user picks another Gram staining; Streamlit reruns the script.
SelectGram(gram) ==
    /\ status = "ok"
    /\ gram # selected_gram
    /\ Script(gram, selected_antibiotic)

\* The user picks another antibiotic; Streamlit reruns the script.
SelectAntibiotic(antibiotic) ==
    /\ status = "ok"
    /\ antibiotic # selected_antibiotic
    /\ Script(selected_gram, antibiotic)

Next ==
    \/ FirstRun
    \/ \E k \in DOMAIN GramOptions : SelectGram(GramOptions[k])
    \/ \E k \in DOMAIN AntibioticOptions : SelectAntibiotic(AntibioticOptions[k])

Spec == Init /\ [][Next]_vars

\* ------------------------------------------- permutations of the table
\* The aggregation applied to reorderings of a loaded table.
Swap(table, i, j) ==
    [k \in 1..Len(table) |-> IF k = i THEN table[j] ELSE IF k = j THEN table[i] ELSE table[k]]

Aggregate(table) ==
    /\ df' = table
    /\ gram_pos_pen' = GramPosPen(table)
    /\ gram_neg_pen' = GramNegPen(table)
    /\ effectiveness_ratio' = EffectivenessRatio(table)
    /\ summary_stats' = SummaryStats(table)
    /\ UNCHANGED <<source, cache_vars, most_effective, least_effective, widget_vars>>

PermLoad ==
    /\ status = "idle"
    /\ source # <<>>
    /\ status' = "perm"
    /\ swaps' = 0
    /\ Aggregate(load_and_transform_data(source).rows)

SwapRows(i, j) ==
    /\ status = "perm"
    /\ swaps < MaxSwaps
    /\ status' = status
    /\ swaps' = swaps + 1
    /\ Aggregate(Swap(df, i, j))

PermInit == source \in PermSources /\ Blank

PermNext ==
    \/ PermLoad
    \/ \E i \in 1..Len(df) : \E j \in (i + 1)..Len(df) : SwapRows(i, j)

SpecPerm == PermInit /\ [][PermNext]_vars

\* ------------------------------------------------------------- claims
\* The loader returned a table in the last run.
Loaded == status \in {"ok", "script_error"}

\* C1: a table the loader returns has exactly N*K rows, and the row at position
\* (i-1)*K + j (counting from 1) carries the bacteria, genus and staining of the
\* i-th record, the j-th antibiotic of the list and that record's MIC for it.
C1_RowsInRecordOrder ==
    Loaded =>
        /\ Len(df) = Len(source) * K
        /\ \A i \in 1..Len(source) : \A j \in 1..K :
              LET row == df[(i - 1) * K + j]
              IN  /\ row.bacteria = source[i]["Bacteria"]
                  /\ row.genus = source[i]["Genus"]
                  /\ row.gram_staining = source[i]["Gram_Staining"]
                  /\ row.antibiotic = Antibiotics[j]
                  /\ row.mic = source[i][Antibiotics[j]]

\* Two different records were loaded.
C1_Witness ==
    /\ status = "ok"
    /\ Len(df) = 2 * K
    /\ df[1].bacteria # df[K + 1].bacteria
    /\ df[1].mic # df[K + 1].mic

\* C2: no table the loader returns (or caches) holds a row whose mic is zero or
\* negative, or whose log_mic is undefined or minus infinity.
C2_NonPositiveMicRejected ==
    /\ \A i \in 1..Len(df) : df[i].mic > 0 /\ df[i].log_mic.kind = "num"
    /\ \A i \in 1..Len(cache_value) :
          cache_value[i].mic > 0 /\ cache_value[i].log_mic.kind = "num"

\* C3: a run in which some (antibiotic, staining) key matches no row fails; it
\* does not complete with values for the means and ratios.
C3_EmptyGroupFails ==
    \A k \in 1..K : \A g \in {"positive", "negative"} :
        (/\ status # "idle"
         /\ ~ \E i \in 1..Len(df) :
                df[i].antibiotic = Antibiotics[k] /\ df[i].gram_staining = g)
        => /\ status \in {"load_error", "script_error"}
           /\ summary_stats = <<>>
           /\ effectiveness_ratio = Unset

\* A row matches a pair of selections.
Matches(row, gram, antibiotic) ==
    /\ gram = "All" \/ row.gram_staining = gram
    /\ antibiotic = "All" \/ row.antibiotic = antibiotic

\* C4: the filtered view is the order-preserving subsequence of df made of the
\* rows matching every selection that is not 'All': its k-th row is the k-th
\* matching row of df; with ('All', 'All') it is df itself.
C4_FilteredIsMatchingSubsequence ==
    status = "ok" =>
        LET idx == { i \in 1..Len(df) : Matches(df[i], selected_gram, selected_antibiotic) }
        IN  /\ Len(filtered_df) = Cardinality(idx)
            /\ \A i \in idx : filtered_df[Cardinality({ j \in idx : j <= i })] = df[i]
            /\ (selected_gram = "All" /\ selected_antibiotic = "All") => filtered_df = df

\* Both filters narrow the view, which keeps two different rows.
C4_Witness ==
    /\ status = "ok"
    /\ selected_gram = "negative"
    /\ selected_antibiotic = "Streptomycin"
    /\ Len(df) = 2 * K
    /\ Len(filtered_df) = 2
    /\ filtered_df[1] # filtered_df[2]

\* C5: for each antibiotic, the most effective record is the first row of df,
\* among the rows of that antibiotic, whose mic is the minimum (no earlier row
\* is as low), and the least effective record the first whose mic is the maximum.
C5_ExtremaFirstOccurrence ==
    status = "ok" =>
        \A k \in 1..K :
            LET of_a == { i \in 1..Len(df) : df[i].antibiotic = Antibiotics[k] }
                lo == CHOOSE i \in of_a :
                         /\ \A j \in of_a : df[i].mic <= df[j].mic
                         /\ \A j \in of_a : j < i => df[j].mic > df[i].mic
                hi == CHOOSE i \in of_a :
                         /\ \A j \in of_a : df[i].mic >= df[j].mic
                         /\ \A j \in of_a : j < i => df[j].mic < df[i].mic
            IN  /\ of_a # {}
                /\ most_effective[k].Antibiotic = Antibiotics[k]
                /\ most_effective[k].Bacteria = df[lo].bacteria
                /\ most_effective[k].MIC = df[lo].mic
                /\ most_effective[k].Gram_Staining = df[lo].gram_staining
                /\ least_effective[k].Antibiotic = Antibiotics[k]
                /\ least_effective[k].Bacteria = df[hi].bacteria
                /\ least_effective[k].MIC = df[hi].mic
                /\ least_effective[k].Gram_Staining = df[hi].gram_staining

\* Two bacteria tie on the Penicillin mic.
C5_Witness ==
    /\ status = "ok"
    /\ Len(df) = 2 * K
    /\ df[1].mic = df[K + 1].mic
    /\ df[1].bacteria # df[K + 1].bacteria
    /\ most_effective[1].Bacteria = df[1].bacteria

\* C6: in every table the loader returns, every row is selected for exactly one
\* of the positive and the negative group mean of its antibiotic.
C6_GroupsPartitionRows ==
    \A i \in 1..Len(df) :
        (df[i].gram_staining = "positive") # (df[i].gram_staining = "negative")

\* C7: the file is read at most once, by the first run; every rerun a filter
\* change triggers leaves the read count, the cached table and df as they were.
C7_ReadOnce ==
    /\ [](reads <= 1 /\ (status # "idle" => reads = 1))
    /\ [][status = "ok" => (reads' = reads /\ cache_value' = cache_value /\ df' = df)]_vars

\* Both boxes were changed after the first run.
C7_Witness ==
    /\ status = "ok"
    /\ reads = 1
    /\ selected_gram # "All"
    /\ selected_antibiotic # "All"

\* C8: when a record of the file lacks a required key, the run ends in the
\* loader's exception: no table is returned or cached and no statistic is set.
C8_AllOrNothing ==
    (/\ status # "idle"
     /\ \E i \in 1..Len(source) : ~(RecordKeys \subseteq DOMAIN source[i]))
    => /\ status = "load_error"
       /\ is_cached = FALSE
       /\ cache_value = <<>>
       /\ df = <<>>
       /\ gram_pos_pen = Unset
       /\ gram_neg_pen = Unset
       /\ effectiveness_ratio = Unset
       /\ summary_stats = <<>>
       /\ most_effective = <<>>
       /\ least_effective = <<>>
       /\ filtered_df = <<>>

\* The load failed on the second record, after a well-formed first one.
C8_Witness ==
    /\ status = "load_error"
    /\ Len(source) = 2
    /\ RecordKeys \subseteq DOMAIN source[1]

C10_FilterLeavesTableAndStatistics ==
    /\ [][status = "ok" =>
             /\ df' = df
             /\ gram_pos_pen' = gram_pos_pen
             /\ gram_neg_pen' = gram_neg_pen
             /\ effectiveness_ratio' = effectiveness_ratio
             /\ summary_stats' = summary_stats
             /\ most_effective' = most_effective
             /\ least_effective' = least_effective]_vars
    /\ [](status = "ok" =>
             filtered_df = FilterRows(df, selected_gram, selected_antibiotic))

\* A selection that narrows the view was made after another one.
C10_Witness ==
    /\ status = "ok"
    /\ selected_gram = "positive"
    /\ selected_antibiotic = "Neomycin"
    /\ Len(filtered_df) > 0
    /\ Len(filtered_df) < Len(df)

====
